---- MODULE Spec2Model ----
(***************************************************************************)
(* A model of fawern-ai: the generate / execute / self-heal loop of        *)
(* ChatPython.generate_code (src/fawern/chat_python.py) and the provider   *)
(* abstraction (src/fawern/config.py, providers/provider_factory.py,       *)
(* providers/groq_provider.py, providers/openai_provider.py,               *)
(* base_assistant.py).                                                     *)
(***************************************************************************)
EXTENDS Integers, Sequences, FiniteSets, TLC

VARIABLES
    \* ---- the execution loop, one entry per running generate_code call
    pc,               \* position of each call
    args,             \* the flags of each call (run_code after line 58)
    generated_code,   \* self.generated_code
    file_name,        \* self.file_name
    missing_module,   \* the local missing_module of _run_generated_code
    output,           \* the local output of generate_code
    outcome,          \* what the call returned or raised
    files,            \* the files that exist under root_directory
    installed,        \* the packages of the interpreter's environment
    calls,            \* every subprocess.run / os.remove made, in order
    \* ---- configuration, provider factory and one BaseAssistant
    env,              \* the environment variables config.py reads
    config_state,     \* "unloaded", "loaded", or "failed" (import raised)
    API_KEYS,         \* config.API_KEYS
    DEFAULT_PROVIDER, \* config.DEFAULT_PROVIDER
    registry,         \* ProviderFactory._providers: name -> class
    providers,        \* every provider instance constructed, in order
    client_calls,     \* client_calls[k]: the create calls instance k's client received
    asst,             \* the BaseAssistant object
    gen,              \* the generator of _get_streaming_completion
    switched,         \* history: the instance the last good switch built
    last,             \* what the last operation returned or raised
    mock,             \* the response the mocked upstream serves
    stream,           \* the generator's place in the upstream stream, its chunks
    reply,            \* what _get_completion last returned
    validation        \* what the last validate_provider did and returned

loopVars == <<pc, args, generated_code, file_name, missing_module, output,
              outcome, files, installed, calls>>

auxVars == <<mock, stream, reply, validation>>

provVars == <<env, config_state, API_KEYS, DEFAULT_PROVIDER, registry,
              providers, client_calls, asst, gen, switched, last,
              mock, stream, reply, validation>>

vars == <<pc, args, generated_code, file_name, missing_module, output,
          outcome, files, installed, calls,
          env, config_state, API_KEYS, DEFAULT_PROVIDER, registry,
          providers, client_calls, asst, gen, switched, last,
          mock, stream, reply, validation>>

----------------------------------------------------------------------------
(* Bounds and input sets *)

\* longest stderr, counted in text fragments
MaxErrLen == 2

\* the concurrent generate_code calls the model has room for
Inst == {"a", "b"}

\* stdout of a successful child process ("partial" is what a failing one wrote)
Stdouts == {"", "out"}

\* the generated source after _remove_python_prefix
Codes == {"", "code"}

\* the file names _generate_file_name can produce
FileNames == {"gen.py"}

\* dependency names that can appear quoted in an error stream
ModuleNames == {"foo", "bar"}

\* A stderr text is a sequence of lines. Of a line the loop reads two things:
\* whether it holds the text ModuleNotFoundError, and the name n of its
\* leftmost  No module named 'n'  ("" when the line holds no such text, as in
\* "ImportError: cannot import name x" or "No module named foo").
Line(m, n) == [src |-> "py", mnfe |-> m, name |-> n]

Lines == {Line(m, n) : m \in BOOLEAN, n \in ModuleNames \cup {""}}

SeqsUpTo(S, n) == UNION {[1..k -> S] : k \in 0..n}

Stderrs == SeqsUpTo(Lines, MaxErrLen)

\* stderr of the package installer
PipErrs == {<<>>, <<[src |-> "pip", mnfe |-> FALSE, name |-> ""]>>}

\* what a run of the artifact can produce: a failing run with any stderr, a
\* successful one with any stdout (and a stderr the loop then never reads)
ExecResults ==
    {[rc |-> 1, out |-> "partial", err |-> e] : e \in Stderrs}
    \cup {[rc |-> 0, out |-> o, err |-> e] : o \in Stdouts,
            e \in {<<>>, <<Line(TRUE, "foo")>>}}

PipResults ==
    {[rc |-> 0, out |-> "", err |-> <<>>]}
    \cup {[rc |-> 1, out |-> "", err |-> e] : e \in PipErrs}

\* two generate_code calls are running against the one environment
Concurrent == \A i \in Inst : pc[i] # "off"

\* the dependency the artifacts of concurrent calls import
SharedModule == "foo"

\* What a run of the artifact produces now. One call alone: anything. Two
\* calls at once: both artifacts import SharedModule, and a run fails on that
\* import exactly when the module is not in the environment.
RunResults ==
    IF ~Concurrent THEN ExecResults
    ELSE IF SharedModule \in installed
    THEN {[rc |-> 0, out |-> "out", err |-> <<>>]}
    ELSE {[rc |-> 1, out |-> "partial", err |-> <<Line(TRUE, SharedModule)>>]}

\* What pip produces now. One call alone: anything. Two calls at once: pip
\* itself works.
PipRunResults ==
    IF ~Concurrent THEN PipResults ELSE {[rc |-> 0, out |-> "", err |-> <<>>]}

----------------------------------------------------------------------------
(* Pure helpers of _run_generated_code *)

\* "ModuleNotFoundError" in result.stderr
HasModuleNotFoundError(err) == \E k \in 1..Len(err) : err[k].mnfe

\* a line that r"No module named '([^']+)'" matches
MatchesAt(err, k) == err[k].name # ""

\* re.search(r"No module named '([^']+)'", stderr) is not None
HasMatch(err) == \E k \in 1..Len(err) : MatchesAt(err, k)

\* variant: the rightmost match instead of the leftmost
MatchGroup1_Last(err) ==
    LET k == CHOOSE j \in 1..Len(err) :
                 MatchesAt(err, j) /\ \A h \in (j + 1)..Len(err) : ~MatchesAt(err, h)
    IN  err[k].name

\* match.group(1): re.search returns the leftmost match
MatchGroup1(err) ==
    LET k == CHOOSE j \in 1..Len(err) :
                 MatchesAt(err, j) /\ \A h \in 1..(j - 1) : ~MatchesAt(err, h)
    IN  err[k].name

\* variant: the regex alone decides, without the ModuleNotFoundError test
Recoverable_RegexOnly(res) == res.rc # 0 /\ HasMatch(res.err)

\* lines 136-139: the failure the loop recovers from
Recoverable(res) ==
    res.rc # 0 /\ HasModuleNotFoundError(res.err) /\ HasMatch(res.err)

\* variant: the installer's exit code is not read
InstallSucceeded_Always(res) == TRUE

\* line 147: install_result.returncode == 0
InstallSucceeded(res) == res.rc = 0

\* variant: the retry's exit code is not read
RetryFailed_Never(res) == FALSE

\* line 150: result.returncode != 0 after the retry
RetryFailed(res) == res.rc # 0

\* variant: the output is returned even when empty
ReturnValue_Output(out, code) == out

\* line 78: return output if output else self.generated_code
ReturnValue(out, code) == IF out # "" THEN out ELSE code

----------------------------------------------------------------------------
(* Outcomes *)

NoOutcome == [kind |-> "none", value |-> "", exc |-> "", msg |-> "",
              module |-> "", detail |-> <<>>]

Returned(v) == [kind |-> "returned", value |-> v, exc |-> "", msg |-> "",
                module |-> "", detail |-> <<>>]

Raised(e, m, mod, d) == [kind |-> "raised", value |-> "", exc |-> e, msg |-> m,
                         module |-> mod, detail |-> d]

\* line 170: every Exception raised inside the try is re-raised as
\* Exception("Cannot run code: {e}"), which keeps e's text
CannotRunCode(m, mod, d) == Raised("Exception", m, mod, d)

Call(i, op, arg, res) ==
    [inst |-> i, op |-> op, arg |-> arg, rc |-> res.rc, out |-> res.out, err |-> res.err]

NoFlags == [write_code_to_file |-> FALSE, run_code |-> FALSE,
            cleanup_installed_module |-> FALSE, cleanup_generated_file |-> FALSE]

----------------------------------------------------------------------------
(* generate_code and the execution loop *)

\* generate_code, lines 57-66 and 80: the flags, the completion, and the return
\* when nothing is to be run
GenerateCode(i) ==
    /\ pc[i] = "idle"
    /\ \E wf \in BOOLEAN, rc \in BOOLEAN, cim \in BOOLEAN, cgf \in BOOLEAN :
         args' = [args EXCEPT ![i] =
                    [write_code_to_file |-> wf,
                     run_code |-> IF ~wf THEN FALSE ELSE rc,
                     cleanup_installed_module |-> cim,
                     cleanup_generated_file |-> cgf]]
    /\ \E ok \in BOOLEAN :
         IF ~ok
         THEN /\ outcome' = [outcome EXCEPT ![i] =
                               Raised("Exception", "AI completion error", "", <<>>)]
              /\ pc' = [pc EXCEPT ![i] = "done"]
              /\ UNCHANGED generated_code
         ELSE \E c \in Codes :
              /\ generated_code' = [generated_code EXCEPT ![i] = c]
              /\ IF args'[i].run_code
                 THEN /\ pc' = [pc EXCEPT ![i] = "write"]
                      /\ UNCHANGED outcome
                 ELSE /\ pc' = [pc EXCEPT ![i] = "done"]
                      /\ outcome' = [outcome EXCEPT ![i] = Returned(c)]
    /\ UNCHANGED <<file_name, missing_module, output, files, installed, calls>>
    /\ UNCHANGED provVars

\* _write_code_to_file, lines 107-123 (with _generate_file_name, 96-105)
WriteCodeToFile(i) ==
    /\ pc[i] = "write"
    /\ \E ok \in BOOLEAN :
         IF ~ok
         THEN \* _generate_file_name's completion failed
              /\ outcome' = [outcome EXCEPT ![i] =
                               Raised("Exception", "AI completion error", "", <<>>)]
              /\ pc' = [pc EXCEPT ![i] = "done"]
              /\ UNCHANGED <<file_name, files>>
         ELSE \E f \in FileNames :
              /\ file_name' = [file_name EXCEPT ![i] = f]
              /\ IF generated_code[i] # ""
                 THEN /\ files' = files \cup {f}
                      /\ pc' = [pc EXCEPT ![i] = "check"]
                      /\ UNCHANGED outcome
                 ELSE /\ outcome' = [outcome EXCEPT ![i] =
                                       Raised("Exception", "No code generated yet", "", <<>>)]
                      /\ pc' = [pc EXCEPT ![i] = "done"]
                      /\ UNCHANGED files
    /\ UNCHANGED <<args, generated_code, missing_module, output, installed, calls>>
    /\ UNCHANGED provVars

\* _run_generated_code, lines 127-133: the artifact must exist
RunCheckExists(i) ==
    /\ pc[i] = "check"
    /\ IF file_name[i] \in files
       THEN /\ pc' = [pc EXCEPT ![i] = "exec"]
            /\ UNCHANGED outcome
       ELSE /\ pc' = [pc EXCEPT ![i] = "done"]
            /\ outcome' = [outcome EXCEPT ![i] =
                             Raised("FileNotFoundError", "does not exist", "", <<>>)]
    /\ UNCHANGED <<args, generated_code, file_name, missing_module, output,
                   files, installed, calls>>
    /\ UNCHANGED provVars

\* lines 135-141 and 166-168: the first run and what the loop decides from it
ExecuteFirst(i) ==
    /\ pc[i] = "exec"
    /\ \E res \in RunResults :
         /\ calls' = Append(calls, Call(i, "exec", file_name[i], res))
         /\ IF res.rc = 0
            THEN /\ output' = [output EXCEPT ![i] = res.out]
                 /\ pc' = [pc EXCEPT ![i] = "cleanup"]
                 /\ UNCHANGED <<missing_module, outcome>>
            ELSE IF Recoverable(res)
            THEN /\ missing_module' = [missing_module EXCEPT ![i] = MatchGroup1(res.err)]
                 /\ pc' = [pc EXCEPT ![i] = "install"]
                 /\ UNCHANGED <<output, outcome>>
            ELSE /\ outcome' = [outcome EXCEPT ![i] =
                                  CannotRunCode("Script error", "", res.err)]
                 /\ pc' = [pc EXCEPT ![i] = "done"]
                 /\ UNCHANGED <<missing_module, output>>
    /\ UNCHANGED <<args, generated_code, file_name, files, installed>>
    /\ UNCHANGED provVars

\* lines 142-148 and 164-165: pip install missing_module
Install(i) ==
    /\ pc[i] = "install"
    /\ \E res \in PipRunResults :
         /\ calls' = Append(calls, Call(i, "install", missing_module[i], res))
         /\ IF InstallSucceeded(res)
            THEN /\ installed' = installed \cup {missing_module[i]}
                 /\ pc' = [pc EXCEPT ![i] = "retry"]
                 /\ UNCHANGED outcome
            ELSE /\ outcome' = [outcome EXCEPT ![i] =
                                  CannotRunCode("Failed to install", missing_module[i], res.err)]
                 /\ pc' = [pc EXCEPT ![i] = "done"]
                 /\ UNCHANGED installed
    /\ UNCHANGED <<args, generated_code, file_name, missing_module, output, files>>
    /\ UNCHANGED provVars

\* variant: a failed retry with cleanup_installed_module on goes on to the
\* uninstall before the call ends
Retry_CleansUpOnFailure(i) ==
    /\ pc[i] = "retry"
    /\ \E res \in RunResults :
         /\ calls' = Append(calls, Call(i, "exec", file_name[i], res))
         /\ IF RetryFailed(res)
            THEN /\ outcome' = [outcome EXCEPT ![i] =
                                  CannotRunCode("Error after installing", missing_module[i], res.err)]
                 /\ pc' = [pc EXCEPT ![i] =
                             IF args[i].cleanup_installed_module THEN "uninstall" ELSE "done"]
                 /\ UNCHANGED output
            ELSE /\ output' = [output EXCEPT ![i] = res.out]
                 /\ pc' = [pc EXCEPT ![i] =
                             IF args[i].cleanup_installed_module THEN "uninstall" ELSE "cleanup"]
                 /\ UNCHANGED outcome
    /\ UNCHANGED <<args, generated_code, file_name, missing_module, files, installed>>
    /\ UNCHANGED provVars

\* lines 149-152 and 163: the one retry
Retry(i) ==
    /\ pc[i] = "retry"
    /\ \E res \in RunResults :
         /\ calls' = Append(calls, Call(i, "exec", file_name[i], res))
         /\ IF RetryFailed(res)
            THEN /\ outcome' = [outcome EXCEPT ![i] =
                                  CannotRunCode("Error after installing", missing_module[i], res.err)]
                 /\ pc' = [pc EXCEPT ![i] = "done"]
                 /\ UNCHANGED output
            ELSE /\ output' = [output EXCEPT ![i] = res.out]
                 /\ pc' = [pc EXCEPT ![i] =
                             IF args[i].cleanup_installed_module THEN "uninstall" ELSE "cleanup"]
                 /\ UNCHANGED outcome
    /\ UNCHANGED <<args, generated_code, file_name, missing_module, files, installed>>
    /\ UNCHANGED provVars

\* variant: an uninstall that exits non-zero ends the call with an error
Uninstall_Fatal(i) ==
    /\ pc[i] = "uninstall"
    /\ \E res \in PipRunResults :
         /\ calls' = Append(calls, Call(i, "uninstall", missing_module[i], res))
         /\ installed' = IF res.rc = 0 THEN installed \ {missing_module[i]} ELSE installed
         /\ IF res.rc = 0
            THEN /\ pc' = [pc EXCEPT ![i] = "cleanup"]
                 /\ UNCHANGED outcome
            ELSE /\ pc' = [pc EXCEPT ![i] = "done"]
                 /\ outcome' = [outcome EXCEPT ![i] =
                                  CannotRunCode("Failed to uninstall", missing_module[i], res.err)]
    /\ UNCHANGED <<args, generated_code, file_name, missing_module, output, files>>
    /\ UNCHANGED provVars

\* lines 152-163: pip uninstall missing_module -y, best effort
Uninstall(i) ==
    /\ pc[i] = "uninstall"
    /\ \E res \in PipRunResults :
         /\ calls' = Append(calls, Call(i, "uninstall", missing_module[i], res))
         /\ installed' = IF res.rc = 0 THEN installed \ {missing_module[i]} ELSE installed
    /\ pc' = [pc EXCEPT ![i] = "cleanup"]
    /\ UNCHANGED <<args, generated_code, file_name, missing_module, output, outcome, files>>
    /\ UNCHANGED provVars

\* generate_code, lines 71-78: delete the artifact if asked, then return
CleanupAndReturn(i) ==
    /\ pc[i] = "cleanup"
    /\ IF args[i].cleanup_generated_file
       THEN \E ok \in BOOLEAN :
              LET removed == ok /\ file_name[i] \in files
              IN  /\ files' = IF removed THEN files \ {file_name[i]} ELSE files
                  /\ calls' = Append(calls,
                        Call(i, "remove", file_name[i],
                             [rc |-> IF removed THEN 0 ELSE 1, out |-> "", err |-> <<>>]))
       ELSE UNCHANGED <<files, calls>>
    /\ outcome' = [outcome EXCEPT ![i] =
                     Returned(ReturnValue(output[i], generated_code[i]))]
    /\ pc' = [pc EXCEPT ![i] = "done"]
    /\ UNCHANGED <<args, generated_code, file_name, missing_module, output, installed>>
    /\ UNCHANGED provVars

----------------------------------------------------------------------------
(* Configuration: config.py *)

\* config.AI_PROVIDERS (api_key_env and default_model of each entry)
AI_PROVIDERS ==
    [groq   |-> [api_key_env |-> "GROQ_API_KEY",
                 default_model |-> "llama-3.1-70b-versatile"],
     openai |-> [api_key_env |-> "OPENAI_API_KEY",
                 default_model |-> "gpt-4"]]

\* the insertion order of AI_PROVIDERS, which list(API_KEYS.keys()) follows
ProviderOrder == <<"groq", "openai">>

\* the environments the module can be imported in: a key is unset ("") or
\* set, FAWERN_AI_PROVIDER is unset or names a provider
Envs ==
    [GROQ_API_KEY : {"", "gsk"}, OPENAI_API_KEY : {"", "sk"},
     FAWERN_AI_PROVIDER : {"UNSET", "openai", "bogus"},
     libs : {{"groq", "openai"}, {"groq"}}]

\* the provider names callers ask for ("" is None)
RequestNames == {"groq", "openai", "custom", "bogus"}

\* the model argument of BaseAssistant ("" is None)
ModelArgs == {"", "my-model"}

\* provider-specific keyword arguments
Options == {"organization"}

\* the classes handed to register_provider
Classes == {"CustomProvider", "NotAProvider"}

\* issubclass(provider_class, BaseProvider)
IsProviderClass(c) == c \in {"GroqProvider", "OpenAIProvider", "CustomProvider"}

\* the names register_provider is called with
RegisterNames == {"custom", "openai"}

\* the most provider instances constructed in one run
MaxProviders == 2

\* the most upstream calls made in one run
MaxClientCalls == 2

\* an exception: its class, the fixed text of its message, the name and the
\* lists the message interpolates, and the texts of the errors it wraps
Err(exc, msg, name, lists) ==
    [exc |-> exc, msg |-> msg, name |-> name, lists |-> lists, inner |-> <<>>]

\* raise exc(f"msg ... {e}"): an error whose message ends with that of e
Wrap(exc, msg, name, lists, e) ==
    [exc |-> exc, msg |-> msg, name |-> name, lists |-> lists,
     inner |-> <<e.msg>> \o e.inner]

NoErr == Err("", "", "", <<>>)

NoConfig == [api_key_env |-> "", default_model |-> "", api_key |-> ""]

NoInstance == [cls |-> "", api_key |-> "", model |-> "", kwargs |-> {}]

\* no validate_provider call has been made
NoValidation == [by |-> "", name |-> "", built |-> FALSE, called |-> FALSE,
                 call_ok |-> FALSE, result |-> ""]

\* variant: line 28 left out, a key that is not set is kept as an empty key
KeysFromEnv_KeepsEmpty(e) ==
    [p \in DOMAIN AI_PROVIDERS |-> e[AI_PROVIDERS[p].api_key_env]]

\* lines 25-29: the providers whose key variable is set and not empty
KeysFromEnv(e) ==
    LET have == {p \in DOMAIN AI_PROVIDERS : e[AI_PROVIDERS[p].api_key_env] # ""}
    IN  [p \in have |-> e[AI_PROVIDERS[p].api_key_env]]

\* list(API_KEYS.keys())[0]
FirstAvailable(keys) ==
    LET k == CHOOSE j \in 1..Len(ProviderOrder) :
                 /\ ProviderOrder[j] \in DOMAIN keys
                 /\ \A h \in 1..(j - 1) : ProviderOrder[h] \notin DOMAIN keys
    IN  ProviderOrder[k]

\* lines 23 and 31-34: the default provider, given the keys found
ResolveDefault(e, keys) ==
    LET d == IF e.FAWERN_AI_PROVIDER = "UNSET" THEN "groq" ELSE e.FAWERN_AI_PROVIDER
    IN  IF d \in DOMAIN keys THEN d ELSE FirstAvailable(keys)

\* config.py at import: lines 23-38
LoadConfig ==
    /\ config_state = "unloaded"
    /\ LET keys == KeysFromEnv(env) IN
       IF DOMAIN keys = {}
       THEN /\ config_state' = "failed"
            /\ last' = [op |-> "import", name |-> "", status |-> "raised", inst |-> 0,
                        made |-> NoInstance,
                        err |-> Err("ValueError", "No AI provider API keys found", "",
                                    <<DOMAIN AI_PROVIDERS>>)]
            /\ UNCHANGED <<API_KEYS, DEFAULT_PROVIDER>>
       ELSE /\ config_state' = "loaded"
            /\ API_KEYS' = keys
            /\ DEFAULT_PROVIDER' = ResolveDefault(env, keys)
            /\ last' = [op |-> "import", name |-> "", status |-> "ok", inst |-> 0,
                        made |-> NoInstance, err |-> NoErr]
    /\ UNCHANGED <<env, registry, providers, client_calls, asst, gen, switched>>
    /\ UNCHANGED auxVars
    /\ UNCHANGED loopVars

\* API_KEYS.get(provider), line 74: "" stands for None
KeyOf(p) == IF p \in DOMAIN API_KEYS THEN API_KEYS[p] ELSE ""

\* variant: the key is not looked at, lines 76-77 left out
GetProviderConfig_NoKeyCheck(provider) ==
    LET p == IF provider = "" THEN DEFAULT_PROVIDER ELSE provider IN
    IF p \notin DOMAIN AI_PROVIDERS
    THEN [ok |-> FALSE, config |-> NoConfig,
          err |-> Err("ValueError", "Unknown provider", p, <<DOMAIN AI_PROVIDERS>>)]
    ELSE [ok |-> TRUE,
          config |-> [api_key_env |-> AI_PROVIDERS[p].api_key_env,
                      default_model |-> AI_PROVIDERS[p].default_model,
                      api_key |-> KeyOf(p)],
          err |-> NoErr]

\* get_provider_config, lines 59-79
GetProviderConfig(provider) ==
    LET p == IF provider = "" THEN DEFAULT_PROVIDER ELSE provider IN
    IF p \notin DOMAIN AI_PROVIDERS
    THEN [ok |-> FALSE, config |-> NoConfig,
          err |-> Err("ValueError", "Unknown provider", p, <<DOMAIN AI_PROVIDERS>>)]
    ELSE IF KeyOf(p) = ""
    THEN [ok |-> FALSE, config |-> NoConfig,
          err |-> Err("ValueError", "API key not found for provider", p, <<>>)]
    ELSE [ok |-> TRUE,
          config |-> [api_key_env |-> AI_PROVIDERS[p].api_key_env,
                      default_model |-> AI_PROVIDERS[p].default_model,
                      api_key |-> KeyOf(p)],
          err |-> NoErr]

----------------------------------------------------------------------------
(* Providers and their factory *)

\* GroqProvider.__init__ / OpenAIProvider.__init__, lines 18-31, and
\* BaseProvider.__init__: a provider object with a client of its own
NewProvider(cls, api_key, model, kwargs) ==
    IF cls = "GroqProvider" /\ "groq" \notin env.libs
    THEN [ok |-> FALSE, inst |-> NoInstance,
          err |-> Err("ImportError", "Groq library not installed", "", <<>>)]
    ELSE IF cls = "OpenAIProvider" /\ "openai" \notin env.libs
    THEN [ok |-> FALSE, inst |-> NoInstance,
          err |-> Err("ImportError", "OpenAI library not installed", "", <<>>)]
    ELSE [ok |-> TRUE,
          inst |-> [cls |-> cls, api_key |-> api_key, model |-> model, kwargs |-> kwargs],
          err |-> NoErr]

\* ProviderFactory.get_provider, lines 32-47; model "" is no model keyword
GetProvider(provider_name, model, kwargs) ==
    LET c == GetProviderConfig(provider_name) IN
    IF ~c.ok
    THEN [ok |-> FALSE, inst |-> NoInstance, err |-> c.err]
    ELSE LET name == IF provider_name = "" THEN "groq" ELSE provider_name IN
         IF name \notin DOMAIN registry
         THEN [ok |-> FALSE, inst |-> NoInstance,
               err |-> Err("ValueError", "Unknown provider", name, <<DOMAIN registry>>)]
         ELSE NewProvider(registry[name], c.config.api_key,
                          IF model # "" THEN model ELSE c.config.default_model,
                          kwargs)

\* a direct call of ProviderFactory.get_provider; the caller keeps the instance
FactoryGetProvider ==
    /\ config_state = "loaded"
    /\ \E n \in RequestNames \cup {""} :
         LET r == GetProvider(n, "", {}) IN
         last' = [op |-> "get_provider", name |-> n,
                  status |-> IF r.ok THEN "ok" ELSE "raised",
                  inst |-> 0, made |-> r.inst, err |-> r.err]
    /\ UNCHANGED <<env, config_state, API_KEYS, DEFAULT_PROVIDER, registry,
                   providers, client_calls, asst, gen, switched>>
    /\ UNCHANGED auxVars
    /\ UNCHANGED loopVars

\* ProviderFactory.register_provider, lines 60-71
RegisterProvider ==
    /\ config_state = "loaded"
    /\ \E n \in RegisterNames, c \in Classes :
         IF ~IsProviderClass(c)
         THEN /\ last' = [op |-> "register", name |-> n, status |-> "raised", inst |-> 0,
                          made |-> NoInstance, err |-> Err("ValueError",
                                      "Provider class must inherit from BaseProvider", "", <<>>)]
              /\ UNCHANGED registry
         ELSE /\ registry' = [k \in DOMAIN registry \cup {n} |->
                                 IF k = n THEN c ELSE registry[k]]
              /\ last' = [op |-> "register", name |-> n, status |-> "ok", inst |-> 0,
                          made |-> NoInstance, err |-> NoErr]
    /\ UNCHANGED <<env, config_state, API_KEYS, DEFAULT_PROVIDER,
                   providers, client_calls, asst, gen, switched>>
    /\ UNCHANGED auxVars
    /\ UNCHANGED loopVars

----------------------------------------------------------------------------
(* BaseAssistant *)

NoAssistant == [state |-> "none", provider_name |-> "", model |-> "", model_arg |-> "",
                kwargs |-> {}, provider_config |-> NoConfig, provider |-> 0]

NotSwitched == [inst |-> 0, name |-> ""]

\* _initialize_provider, lines 58-69: the factory's result, or its error
\* wrapped with the factory's list of providers
InitializeProvider(provider_name, model, kwargs) ==
    LET r == GetProvider(provider_name, model, kwargs) IN
    IF r.ok THEN r
    ELSE [ok |-> FALSE, inst |-> NoInstance,
          err |-> Wrap("ValueError", "Failed to initialize provider", provider_name,
                       r.err.lists \o <<DOMAIN registry>>, r.err)]

\* BaseAssistant.__init__, lines 41-54
AssistantInit ==
    /\ config_state = "loaded"
    /\ asst.state = "none"
    /\ Len(providers) < MaxProviders
    /\ \E n \in RequestNames \cup {""}, m \in ModelArgs, kw \in SUBSET Options :
         LET name  == IF n # "" THEN n ELSE DEFAULT_PROVIDER
             c     == GetProviderConfig(name)
             model == IF m # "" THEN m ELSE c.config.default_model
             r     == InitializeProvider(name, model, kw)
         IN  IF ~c.ok
             THEN /\ last' = [op |-> "construct", name |-> name, status |-> "raised",
                              inst |-> 0, made |-> NoInstance, err |-> c.err]
                  /\ UNCHANGED <<asst, providers, client_calls>>
             ELSE IF ~r.ok
             THEN /\ last' = [op |-> "construct", name |-> name, status |-> "raised",
                              inst |-> 0, made |-> NoInstance, err |-> r.err]
                  /\ UNCHANGED <<asst, providers, client_calls>>
             ELSE /\ providers' = Append(providers, r.inst)
                  /\ client_calls' = Append(client_calls, 0)
                  /\ asst' = [state |-> "live", provider_name |-> name, model |-> model,
                              model_arg |-> m, kwargs |-> kw,
                              provider_config |-> c.config,
                              provider |-> Len(providers) + 1]
                  /\ last' = [op |-> "construct", name |-> name, status |-> "ok",
                              inst |-> Len(providers) + 1, made |-> r.inst,
                              err |-> NoErr]
    /\ UNCHANGED <<env, config_state, API_KEYS, DEFAULT_PROVIDER, registry,
                   gen, switched>>
    /\ UNCHANGED auxVars
    /\ UNCHANGED loopVars

\* switch_provider, lines 126-128, with the assignment of line 59: the
\* assistant after switch_provider(name, **kw), r being the factory's answer
\* and id the new instance's place
AfterSwitch(a, name, kw, r, id) ==
    [a EXCEPT !.provider_name = name,
              !.kwargs = a.kwargs \cup kw,
              !.provider = IF r.ok THEN id ELSE a.provider]

\* BaseAssistant.switch_provider, lines 118-128
SwitchProvider ==
    /\ asst.state = "live"
    /\ Len(providers) < MaxProviders
    /\ \E n \in RequestNames, kw \in SUBSET Options :
         LET r  == InitializeProvider(n, asst.model, asst.kwargs \cup kw)
             id == Len(providers) + 1
         IN  /\ asst' = AfterSwitch(asst, n, kw, r, id)
             /\ providers' = IF r.ok THEN Append(providers, r.inst) ELSE providers
             /\ client_calls' = IF r.ok THEN Append(client_calls, 0) ELSE client_calls
             /\ switched' = IF r.ok
                            THEN [inst |-> id, name |-> n]
                            ELSE switched
             /\ last' = [op |-> "switch", name |-> n,
                         status |-> IF r.ok THEN "ok" ELSE "raised",
                         inst |-> IF r.ok THEN id ELSE 0, made |-> r.inst,
                         err |-> r.err]
    /\ UNCHANGED <<env, config_state, API_KEYS, DEFAULT_PROVIDER, registry, gen>>
    /\ UNCHANGED auxVars
    /\ UNCHANGED loopVars

\* variant: the provider built at construction is kept for every call
DispatchTarget_First(a) == 1

\* lines 90 and 113: self._provider, read when the call is made
DispatchTarget(a) == a.provider

\* get_provider_info, lines 137-144
GetProviderInfo == [provider_name |-> asst.provider_name, model |-> asst.model,
                    config |-> asst.provider_config]

\* the number of upstream calls made so far
TotalCalls(cc) ==
    LET RECURSIVE Sum(_)
        Sum(k) == IF k = 0 THEN 0 ELSE cc[k] + Sum(k - 1)
    IN  Sum(Len(cc))

\* a provider sends a request to its own client: get_completion lines 49-61,
\* get_streaming_completion lines 78-90 (self._client.chat.completions.create)
ClientCall(id) == [client_calls EXCEPT ![id] = @ + 1]

----------------------------------------------------------------------------
(* The upstream response and the two ways a provider reads it *)

\* a text is a sequence of characters; " " stands for any whitespace
Chars == {"a", " "}

\* the content of one streamed chunk's delta; <<>> is "" or None
Deltas == {<<>>, <<"a">>, <<" ">>}

\* the most chunks the upstream stream holds
MaxDeltas == 3

\* A mocked upstream response: the deltas its stream holds; whether reading
\* the stream fails, and after how many chunks; whether the content of the
\* first choice is None. The content of the blocking answer is the deltas put
\* together.
Mocks ==
    {m \in [deltas : SeqsUpTo(Deltas, MaxDeltas), fails : BOOLEAN,
            after : 0..MaxDeltas, null : BOOLEAN] :
        /\ m.after <= Len(m.deltas)
        /\ ~m.fails => m.after = 0
        /\ m.null => \A k \in 1..Len(m.deltas) : m.deltas[k] = <<>>}

\* the one response of the runs that do not look at texts
PlainMock == [deltas |-> <<<<"a">>>>, fails |-> FALSE, after |-> 0, null |-> FALSE]

\* "".join(parts)
Concat(parts) ==
    LET RECURSIVE Join(_)
        Join(k) == IF k = 0 THEN <<>> ELSE Join(k - 1) \o parts[k]
    IN  Join(Len(parts))

\* message.content of the first choice of the blocking answer
Content(m) == Concat(m.deltas)

\* variant: str.lstrip
Strip_Left(t) ==
    LET RECURSIVE L(_)
        L(u) == IF u # <<>> /\ Head(u) = " " THEN L(Tail(u)) ELSE u
    IN  L(t)

\* variant: the content as it is
Strip_None(t) == t

\* str.strip(), groq_provider.py and openai_provider.py line 62
Strip(t) ==
    LET RECURSIVE L(_), R(_)
        L(u) == IF u # <<>> /\ Head(u) = " " THEN L(Tail(u)) ELSE u
        R(u) == IF u # <<>> /\ u[Len(u)] = " " THEN R(SubSeq(u, 1, Len(u) - 1)) ELSE u
    IN  R(L(t))

\* variant: every delta is passed on
IsYielded_All(d) == TRUE

\* line 92: if chunk.choices[0].delta.content
IsYielded(d) == d # <<>>

\* the text of a provider's own error, line 64 and line 95
ApiErrorText(cls) == IF cls = "GroqProvider" THEN "Groq API error" ELSE "OpenAI API error"

\* what the client raises
UpstreamError == Err("APIError", "upstream failure", "", <<>>)

\* None.strip()
NoneError == Err("AttributeError", "'NoneType' object has no attribute 'strip'", "", <<>>)

\* GroqProvider.get_completion / OpenAIProvider.get_completion, lines 59-64,
\* on an instance of class cls: ok says whether the create call returned
ProviderGetCompletion(cls, m, ok) ==
    IF ~ok
    THEN [ok |-> FALSE, text |-> <<>>,
          err |-> Wrap("Exception", ApiErrorText(cls), "", <<>>, UpstreamError)]
    ELSE IF m.null
    THEN [ok |-> FALSE, text |-> <<>>,
          err |-> Wrap("Exception", ApiErrorText(cls), "", <<>>, NoneError)]
    ELSE [ok |-> TRUE, text |-> Strip(Content(m)), err |-> NoErr]

\* lines 90-93 of get_streaming_completion, from the pos-th chunk on: the
\* loop runs until it yields a delta, the stream ends, or reading it fails
Advance(m, pos) ==
    LET RECURSIVE Go(_)
        Go(k) ==
            IF m.fails /\ m.after = k
            THEN [kind |-> "raise", pos |-> k, chunk |-> <<>>]
            ELSE IF k = Len(m.deltas)
            THEN [kind |-> "stop", pos |-> k, chunk |-> <<>>]
            ELSE IF IsYielded(m.deltas[k + 1])
            THEN [kind |-> "yield", pos |-> k + 1, chunk |-> m.deltas[k + 1]]
            ELSE Go(k + 1)
    IN  Go(pos)

NoReply == [ok |-> FALSE, text |-> <<>>]

\* a generator that has not run: no chunk read, none delivered, not ended
NoStream == [pos |-> 0, delivered |-> <<>>, end |-> ""]

\* BaseAssistant._get_completion, lines 82-92
GetCompletion ==
    /\ asst.state = "live"
    /\ TotalCalls(client_calls) < MaxClientCalls
    /\ client_calls' = ClientCall(DispatchTarget(asst))
    /\ \E ok \in BOOLEAN :
         LET id == DispatchTarget(asst)
             r  == ProviderGetCompletion(providers[id].cls, mock, ok)
         IN  /\ reply' = IF r.ok THEN [ok |-> TRUE, text |-> r.text] ELSE reply
             /\ last' = [op |-> "completion", name |-> asst.provider_name,
                         status |-> IF r.ok THEN "ok" ELSE "raised",
                         inst |-> id, made |-> NoInstance,
                         err |-> IF r.ok THEN NoErr
                                 ELSE Wrap("Exception", "AI completion error",
                                           asst.provider_name, <<>>, r.err)]
    /\ UNCHANGED <<env, config_state, API_KEYS, DEFAULT_PROVIDER, registry,
                   providers, asst, gen, switched>>
    /\ UNCHANGED <<mock, stream, validation>>
    /\ UNCHANGED loopVars

\* BaseAssistant._get_streaming_completion, line 94: calling it only builds
\* the generator
StreamCreate ==
    /\ asst.state = "live"
    /\ gen \in {"none", "finished"}
    /\ gen' = "created"
    /\ stream' = NoStream
    /\ last' = [op |-> "stream", name |-> asst.provider_name, status |-> "ok",
                inst |-> 0, made |-> NoInstance, err |-> NoErr]
    /\ UNCHANGED <<env, config_state, API_KEYS, DEFAULT_PROVIDER, registry,
                   providers, client_calls, asst, switched>>
    /\ UNCHANGED <<mock, reply, validation>>
    /\ UNCHANGED loopVars

\* the error _get_streaming_completion raises, line 116, around the provider's
\* own, groq_provider.py line 95
StreamError(cls) ==
    Wrap("Exception", "AI streaming completion error", asst.provider_name, <<>>,
         Wrap("Exception", ApiErrorText(cls), "", <<>>, UpstreamError))

\* the consumer's next() on the generator: base_assistant.py lines 105-116
\* around groq_provider.py lines 89-95. The first one runs the body up to the
\* provider's create call and on to the first yield; the later ones resume
\* the loop; on a generator that has ended, next() raises StopIteration.
StreamPull ==
    /\ gen \in {"created", "running", "finished"}
    /\ gen = "created" => TotalCalls(client_calls) < MaxClientCalls
    /\ \E ok \in BOOLEAN :
         LET id  == DispatchTarget(asst)
             cls == providers[id].cls
             a   == Advance(mock, stream.pos)
         IN
         IF gen = "finished"
         THEN /\ UNCHANGED <<gen, stream, client_calls>>
              /\ last' = [op |-> "pull", name |-> asst.provider_name,
                          status |-> "stopped", inst |-> 0, made |-> NoInstance,
                          err |-> NoErr]
         ELSE IF gen = "created" /\ ~ok
         THEN /\ client_calls' = ClientCall(id)
              /\ gen' = "finished"
              /\ stream' = [stream EXCEPT !.end = "error"]
              /\ last' = [op |-> "pull", name |-> asst.provider_name,
                          status |-> "raised", inst |-> id, made |-> NoInstance,
                          err |-> StreamError(cls)]
         ELSE /\ client_calls' = IF gen = "created" THEN ClientCall(id) ELSE client_calls
              /\ gen' = IF a.kind = "yield" THEN "running" ELSE "finished"
              /\ stream' = [pos |-> a.pos,
                            delivered |-> IF a.kind = "yield"
                                          THEN Append(stream.delivered, a.chunk)
                                          ELSE stream.delivered,
                            end |-> CASE a.kind = "yield" -> ""
                                      [] a.kind = "stop"  -> "stop"
                                      [] a.kind = "raise" -> "error"]
              /\ last' = [op |-> "pull", name |-> asst.provider_name,
                          status |-> CASE a.kind = "yield" -> "ok"
                                       [] a.kind = "stop"  -> "stopped"
                                       [] a.kind = "raise" -> "raised",
                          inst |-> IF gen = "created" THEN id ELSE 0,
                          made |-> NoInstance,
                          err |-> IF a.kind = "raise" THEN StreamError(cls) ELSE NoErr]
    /\ UNCHANGED <<env, config_state, API_KEYS, DEFAULT_PROVIDER, registry,
                   providers, asst, switched>>
    /\ UNCHANGED <<mock, reply, validation>>
    /\ UNCHANGED loopVars

----------------------------------------------------------------------------
(* Validation *)

\* variant: the credentials are reported good whatever the call did
ValidateCredentials_Always(cls, m, ok) == TRUE

\* GroqProvider.validate_credentials / OpenAIProvider.validate_credentials,
\* lines 104-108: True if get_completion("Hello", max_tokens=5) returned
ValidateCredentials(cls, m, ok) == ProviderGetCompletion(cls, m, ok).ok

\* ProviderFactory.validate_provider(name), lines 84-88: by is the caller, ok
\* whether the new provider's create call returns
Validate(by, name, ok) ==
    LET r == GetProvider(name, "", {}) IN
    IF ~r.ok
    THEN [by |-> by, name |-> name, built |-> FALSE, called |-> FALSE,
          call_ok |-> FALSE, result |-> "False"]
    ELSE [by |-> by, name |-> name, built |-> TRUE, called |-> TRUE,
          call_ok |-> ok,
          result |-> IF ValidateCredentials(r.inst.cls, mock, ok)
                     THEN "True" ELSE "False"]

\* a direct call of ProviderFactory.validate_provider
FactoryValidate ==
    /\ config_state = "loaded"
    /\ \E n \in RequestNames \cup {""}, ok \in BOOLEAN :
         validation' = Validate("factory", n, ok)
    /\ UNCHANGED <<env, config_state, API_KEYS, DEFAULT_PROVIDER, registry,
                   providers, client_calls, asst, gen, switched, last>>
    /\ UNCHANGED <<mock, stream, reply>>
    /\ UNCHANGED loopVars

\* BaseAssistant.validate_provider, lines 146-153
AssistantValidate ==
    /\ asst.state = "live"
    /\ \E ok \in BOOLEAN :
         validation' = Validate("assistant", asst.provider_name, ok)
    /\ UNCHANGED <<env, config_state, API_KEYS, DEFAULT_PROVIDER, registry,
                   providers, client_calls, asst, gen, switched, last>>
    /\ UNCHANGED <<mock, stream, reply>>
    /\ UNCHANGED loopVars

----------------------------------------------------------------------------
(* One generate_code call at a time: the program as written *)

\* the provider side before config.py is imported, in environment e
ProviderStart(e) ==
    /\ env = e
    /\ config_state = "unloaded"
    /\ API_KEYS = << >>
    /\ DEFAULT_PROVIDER = ""
    /\ registry = [groq |-> "GroqProvider", openai |-> "OpenAIProvider"]
    /\ providers = <<>>
    /\ client_calls = <<>>
    /\ asst = NoAssistant
    /\ gen = "none"
    /\ switched = NotSwitched
    /\ last = [op |-> "", name |-> "", status |-> "", inst |-> 0,
               made |-> NoInstance, err |-> NoErr]
    /\ stream = NoStream
    /\ reply = NoReply
    /\ validation = NoValidation

ProviderIdle ==
    /\ ProviderStart([GROQ_API_KEY |-> "gsk", OPENAI_API_KEY |-> "",
                      FAWERN_AI_PROVIDER |-> "UNSET", libs |-> {"groq", "openai"}])
    /\ mock = PlainMock

LoopIdle ==
    /\ pc = [i \in Inst |-> "off"]
    /\ args = [i \in Inst |-> NoFlags]
    /\ generated_code = [i \in Inst |-> ""]
    /\ file_name = [i \in Inst |-> ""]
    /\ missing_module = [i \in Inst |-> ""]
    /\ output = [i \in Inst |-> ""]
    /\ outcome = [i \in Inst |-> NoOutcome]
    /\ files = {}
    /\ installed = {}
    /\ calls = <<>>

InitLoop ==
    /\ pc = [i \in Inst |-> IF i = "a" THEN "idle" ELSE "off"]
    /\ args = [i \in Inst |-> NoFlags]
    /\ generated_code = [i \in Inst |-> ""]
    /\ file_name = [i \in Inst |-> ""]
    /\ missing_module = [i \in Inst |-> ""]
    /\ output = [i \in Inst |-> ""]
    /\ outcome = [i \in Inst |-> NoOutcome]
    /\ files = {}
    /\ installed = {}
    /\ calls = <<>>
    /\ ProviderIdle

NextLoop ==
    \E i \in Inst :
        \/ GenerateCode(i)
        \/ WriteCodeToFile(i)
        \/ RunCheckExists(i)
        \/ ExecuteFirst(i)
        \/ Install(i)
        \/ Retry(i)
        \/ Uninstall(i)
        \/ CleanupAndReturn(i)

SpecLoop == InitLoop /\ [][NextLoop]_vars

----------------------------------------------------------------------------
(* Two generate_code calls at once on one interpreter environment *)

\* both calls have written their artifact and enter _run_generated_code, with
\* every flag of generate_code on
InitConc ==
    /\ pc = [i \in Inst |-> "check"]
    /\ args = [i \in Inst |-> [write_code_to_file |-> TRUE, run_code |-> TRUE,
                                cleanup_installed_module |-> TRUE,
                                cleanup_generated_file |-> TRUE]]
    /\ generated_code = [i \in Inst |-> "code"]
    /\ file_name = [i \in Inst |-> "gen.py"]
    /\ missing_module = [i \in Inst |-> ""]
    /\ output = [i \in Inst |-> ""]
    /\ outcome = [i \in Inst |-> NoOutcome]
    /\ files = {"gen.py"}
    /\ installed = {}
    /\ calls = <<>>
    /\ ProviderIdle

\* the steps of the two calls, interleaved in any order: the code takes no lock
NextConc ==
    \E i \in Inst :
        \/ RunCheckExists(i)
        \/ ExecuteFirst(i)
        \/ Install(i)
        \/ Retry(i)
        \/ Uninstall(i)
        \/ CleanupAndReturn(i)

SpecConc == InitConc /\ [][NextConc]_vars

----------------------------------------------------------------------------
(* The provider abstraction: configuration, factory and one assistant *)

InitProvider ==
    /\ \E e \in Envs : ProviderStart(e)
    /\ mock = PlainMock
    /\ LoopIdle

\* an assistant and its completions, with the factory as shipped
NextAssistant ==
    \/ LoadConfig
    \/ AssistantInit
    \/ SwitchProvider
    \/ GetCompletion
    \/ StreamCreate
    \/ StreamPull

SpecAssistant == InitProvider /\ [][NextAssistant]_vars

\* the factory and its registry, with the assistants built from it
NextFactory ==
    \/ LoadConfig
    \/ RegisterProvider
    \/ FactoryGetProvider
    \/ AssistantInit
    \/ SwitchProvider

SpecFactory == InitProvider /\ [][NextFactory]_vars

\* validation, of names given to the factory and of an assistant's provider
NextValidate ==
    \/ LoadConfig
    \/ AssistantInit
    \/ SwitchProvider
    \/ FactoryValidate
    \/ AssistantValidate

\* an answer whose first choice has no content
NullMock == [deltas |-> <<>>, fails |-> FALSE, after |-> 0, null |-> TRUE]

InitValidate ==
    /\ \E e \in Envs : ProviderStart(e)
    /\ mock \in {PlainMock, NullMock}
    /\ LoopIdle

SpecValidate == InitValidate /\ [][NextValidate]_vars

\* an environment with a key for every provider and both libraries
FullEnv == [GROQ_API_KEY |-> "gsk", OPENAI_API_KEY |-> "sk",
            FAWERN_AI_PROVIDER |-> "UNSET", libs |-> {"groq", "openai"}]

\* config.py imported in FullEnv and BaseAssistant(provider_name=n) built, n
\* one of the shipped providers; the upstream serves any response of Mocks
InitStream ==
    /\ env = FullEnv
    /\ config_state = "loaded"
    /\ API_KEYS = KeysFromEnv(FullEnv)
    /\ DEFAULT_PROVIDER = ResolveDefault(FullEnv, KeysFromEnv(FullEnv))
    /\ registry = [groq |-> "GroqProvider", openai |-> "OpenAIProvider"]
    /\ \E n \in DOMAIN AI_PROVIDERS :
         LET c == GetProviderConfig(n)
             r == InitializeProvider(n, c.config.default_model, {})
         IN  /\ providers = <<r.inst>>
             /\ asst = [state |-> "live", provider_name |-> n,
                        model |-> c.config.default_model, model_arg |-> "",
                        kwargs |-> {}, provider_config |-> c.config, provider |-> 1]
             /\ last = [op |-> "construct", name |-> n, status |-> "ok", inst |-> 1,
                        made |-> r.inst, err |-> NoErr]
    /\ client_calls = <<0>>
    /\ gen = "none"
    /\ switched = NotSwitched
    /\ stream = NoStream
    /\ reply = NoReply
    /\ validation = NoValidation
    /\ mock \in Mocks
    /\ LoopIdle

\* one assistant asked for completions, blocking and streamed
NextStream ==
    \/ GetCompletion
    \/ StreamCreate
    \/ StreamPull

SpecStream == InitStream /\ [][NextStream]_vars

----------------------------------------------------------------------------
(* What the claims about the execution loop read off a state *)

\* the child processes call i has run so far, in order
LoopCalls(i) ==
    SelectSeq(calls, LAMBDA c : c.inst = i /\ c.op \in {"exec", "install", "uninstall"})

Runs(i) == SelectSeq(calls, LAMBDA c : c.inst = i /\ c.op = "exec")

Installs(i) == SelectSeq(calls, LAMBDA c : c.inst = i /\ c.op = "install")

Uninstalls(i) == SelectSeq(calls, LAMBDA c : c.inst = i /\ c.op = "uninstall")

DeleteFailed(i) == \E k \in 1..Len(calls) :
    calls[k].inst = i /\ calls[k].op = "remove" /\ calls[k].rc # 0

\* the text  No module named 'n'  occurs somewhere in err
ContainsNoModuleNamed(err, n) == \E k \in 1..Len(err) : err[k].name = n

\* the text ModuleNotFoundError occurs in err, and n is the name quoted by the
\* first  No module named '..'  of err
NamesMissingModule(err, n) ==
    /\ \E k \in 1..Len(err) : err[k].mnfe
    /\ \E k \in 1..Len(err) :
         err[k].name = n /\ \A h \in 1..(k - 1) : err[h].name = ""

\* the loop went execute, install n, and after a good install, execute again
InstalledThenRetried(i, n) ==
    LET L == LoopCalls(i) IN
    /\ Len(L) >= 2 /\ L[2].op = "install" /\ L[2].arg = n
    /\ Len(Installs(i)) = 1
    /\ (L[2].rc = 0 /\ pc[i] # "retry") =>
           /\ Len(L) >= 3 /\ L[3].op = "exec"
           /\ Len(Runs(i)) = 2
    /\ L[2].rc # 0 => Len(Runs(i)) = 1

----------------------------------------------------------------------------
\* C1: with run_code and cleanup_generated_file on, once the loop has run the
\* artifact and generate_code has returned or raised, the artifact file no
\* longer exists, unless the delete itself failed.
C1_ArtifactGoneAtTerminal ==
    \A i \in Inst :
        ( /\ pc[i] = "done"
          /\ args[i].run_code /\ args[i].cleanup_generated_file
          /\ Len(Runs(i)) >= 1
          /\ ~DeleteFailed(i) )
        => file_name[i] \notin files

\* C2 as stated: a failed first run whose stderr contains No module named 'n'
\* leads to an install of n and, after a good install, one more run.
C2_InstallsAnyQuotedName ==
    \A i \in Inst : \A n \in ModuleNames :
        LET L == LoopCalls(i) IN
        ( /\ Len(L) >= 1 /\ L[1].rc # 0
          /\ ContainsNoModuleNamed(L[1].err, n)
          /\ pc[i] # "install" )
        => InstalledThenRetried(i, n)

\* C2 amended: a failed first run whose stderr contains ModuleNotFoundError and
\* whose first No module named '..' quotes n leads to exactly one install, of
\* n, and after a good install to exactly one more run: execute, install,
\* execute.
C2_InstallsFirstNameOfModuleNotFound ==
    \A i \in Inst : \A n \in ModuleNames :
        LET L == LoopCalls(i) IN
        ( /\ Len(L) >= 1 /\ L[1].rc # 0
          /\ NamesMissingModule(L[1].err, n)
          /\ pc[i] # "install" )
        => InstalledThenRetried(i, n)

\* C2 witness: stderr quoted bar and then foo; bar was installed, the retry ran
C2_Witness ==
    \E i \in Inst :
        LET L == LoopCalls(i) IN
        /\ pc[i] = "done" /\ Len(L) >= 3
        /\ L[1].err = <<Line(TRUE, "bar"), Line(FALSE, "foo")>>
        /\ L[2].op = "install" /\ L[2].arg = "bar" /\ L[2].rc = 0
        /\ L[3].op = "exec"

\* C3 as stated: on Success generate_code returns the stdout of the last run,
\* whatever that stdout is.
C3_ReturnsFinalStdout ==
    \A i \in Inst :
        LET R == Runs(i) IN
        (pc[i] = "done" /\ outcome[i].kind = "returned" /\ Len(R) >= 1)
        => outcome[i].value = R[Len(R)].out

\* C3 amended: on Success generate_code returns the stdout of the last run when
\* that stdout is not empty, and the generated code when it is empty.
C3_ReturnsFinalStdoutOrCode ==
    \A i \in Inst :
        LET R == Runs(i) IN
        (pc[i] = "done" /\ outcome[i].kind = "returned" /\ Len(R) >= 1)
        => /\ R[Len(R)].rc = 0
           /\ R[Len(R)].out # "" => outcome[i].value = R[Len(R)].out
           /\ R[Len(R)].out = "" => outcome[i].value = generated_code[i]

\* C3 witness: Success after a retry, the retry's stdout returned
C3_Witness ==
    \E i \in Inst :
        LET R == Runs(i) IN
        /\ pc[i] = "done" /\ Len(R) = 2
        /\ R[1].out = "partial" /\ R[2].out = "out"
        /\ outcome[i] = Returned("out")

\* C4: a call installs at most once and runs the artifact at most twice; a
\* retry that fails ends the loop in Failed with the retry's stderr, and
\* nothing is run after it.
C4_OneInstallTwoRuns ==
    \A i \in Inst :
        LET L == LoopCalls(i) IN
        /\ Len(Installs(i)) <= 1
        /\ Len(Runs(i)) <= 2
        /\ (Len(L) >= 3 /\ L[3].op = "exec" /\ L[3].rc # 0) =>
               /\ Len(L) = 3
               /\ pc[i] = "done"
               /\ outcome[i].kind = "raised"
               /\ outcome[i].msg = "Error after installing"
               /\ outcome[i].detail = L[3].err

\* C4 witness: the retry failed on another missing module
C4_Witness ==
    \E i \in Inst :
        LET L == LoopCalls(i) IN
        /\ Len(L) = 3 /\ L[2].arg = "foo" /\ L[3].rc # 0
        /\ L[3].err = <<Line(TRUE, "bar")>>
        /\ L[3].err # L[1].err
        /\ pc[i] = "done"

\* C5: a failed first run whose stderr lacks ModuleNotFoundError, or lacks a
\* No module named '..', ends the loop in Failed with that stderr; nothing is
\* installed and the artifact is not run again.
C5_NoInstallWithoutMatch ==
    \A i \in Inst :
        LET L == LoopCalls(i) IN
        ( /\ Len(L) >= 1 /\ L[1].rc # 0
          /\ \/ ~\E k \in 1..Len(L[1].err) : L[1].err[k].mnfe
             \/ ~\E k \in 1..Len(L[1].err) : L[1].err[k].name # "" )
        => /\ Len(L) = 1
           /\ pc[i] = "done"
           /\ outcome[i].kind = "raised"
           /\ outcome[i].msg = "Script error"
           /\ outcome[i].detail = L[1].err

\* C5 witness: an import failure worded differently
C5_Witness ==
    \E i \in Inst :
        LET L == LoopCalls(i) IN
        /\ Len(L) = 1 /\ L[1].rc # 0
        /\ L[1].err = <<Line(TRUE, "")>>
        /\ pc[i] = "done"

\* C6: a failing install ends the loop in Failed with the installer's stderr;
\* the artifact is not run again and nothing is uninstalled.
C6_InstallFailureIsFinal ==
    \A i \in Inst :
        LET L == LoopCalls(i) IN
        (Len(L) >= 2 /\ L[2].op = "install" /\ L[2].rc # 0)
        => /\ Len(L) = 2
           /\ pc[i] = "done"
           /\ outcome[i].kind = "raised"
           /\ outcome[i].msg = "Failed to install"
           /\ outcome[i].module = L[2].arg
           /\ outcome[i].detail = L[2].err

\* C6 witness: the installer failed and wrote to stderr
C6_Witness ==
    \E i \in Inst :
        LET L == LoopCalls(i) IN
        /\ Len(L) = 2 /\ L[2].op = "install" /\ L[2].rc # 0
        /\ L[2].err # <<>>
        /\ pc[i] = "done"

----------------------------------------------------------------------------
\* C7: after a switch_provider(p) that returns, the assistant holds a provider
\* instance built during that switch from p's registered class and p's key,
\* and every later completion or streaming call reaches that instance's
\* client: no other client's count of received calls grows.
C7_Step ==
    /\ \A id \in 1..Len(client_calls) :
         (client_calls'[id] > client_calls[id] /\ switched.inst # 0)
         => id = switched.inst
    /\ (asst.state = "live" /\ Len(providers') > Len(providers)) =>
         LET id == Len(providers') IN
         /\ id = Len(providers) + 1
         /\ switched'.inst = id
         /\ asst'.provider = id
         /\ asst'.provider_name = switched'.name
         /\ providers'[id].cls = registry[switched'.name]
         /\ providers'[id].api_key = API_KEYS[switched'.name]
         /\ client_calls'[id] = 0

C7_CallsGoToSwitchedProvider == [][C7_Step]_vars

\* C7 witness: the first client was called, then a switch, then a streaming
\* call reached the second client
C7_Witness ==
    /\ switched.inst = 2
    /\ client_calls = <<1, 1>>
    /\ last.op = "pull" /\ last.inst = 2
    /\ providers[1].cls # providers[2].cls

\* C8: after a switch to p that returned, the model sent upstream and the
\* model and config get_provider_info reports are p's (the caller's model if
\* one was given, else p's default model), not the previous provider's.
C8_NoStateOfPreviousProvider ==
    (switched.inst # 0 /\ asst.provider_name = switched.name) =>
        LET p == switched.name
            m == IF asst.model_arg # "" THEN asst.model_arg
                 ELSE AI_PROVIDERS[p].default_model
        IN  /\ providers[asst.provider].model = m
            /\ GetProviderInfo.model = m
            /\ GetProviderInfo.config.api_key_env = AI_PROVIDERS[p].api_key_env
            /\ GetProviderInfo.config.api_key = API_KEYS[p]

\* C9: a request for a name that is not registered fails with an error that
\* lists exactly the names in the factory's registry at that time.
C9_UnknownNameListsRegistry ==
    (last.op \in {"get_provider", "construct", "switch"}
        /\ last.name # "" /\ last.name \notin DOMAIN registry)
    => /\ last.status = "raised"
       /\ \E k \in 1..Len(last.err.lists) : last.err.lists[k] = DOMAIN registry

\* C10: a name registered through register_provider is constructed by
\* get_provider and by BaseAssistant as an instance of the registered class,
\* and the registry never holds a class that is not a BaseProvider subclass.
C10_RegisteredNameIsConstructed ==
    /\ (last.op \in {"get_provider", "construct"}
           /\ last.name \in DOMAIN registry
           /\ last.name \notin DOMAIN AI_PROVIDERS)
       => /\ last.status = "ok"
          /\ last.made.cls = registry[last.name]
    /\ \A n \in DOMAIN registry : IsProviderClass(registry[n])

----------------------------------------------------------------------------
\* call i ran pip uninstall and pip exited non-zero
UninstallFailed(i) ==
    LET U == Uninstalls(i) IN Len(U) >= 1 /\ U[1].rc # 0

\* C15: when the last run of the artifact succeeded, a failing uninstall of the
\* installed module and a failing delete of the artifact leave the call's
\* outcome what it is without them: generate_code returns, and returns the
\* value it returns for that run's stdout and that code; it never raises.
C15_CleanupFailureKeepsOutcome ==
    \A i \in Inst :
        LET R == Runs(i) IN
        ( /\ pc[i] = "done"
          /\ Len(R) >= 1 /\ R[Len(R)].rc = 0
          /\ UninstallFailed(i) \/ DeleteFailed(i) )
        => /\ outcome[i].kind = "returned"
           /\ outcome[i] = Returned(ReturnValue(R[Len(R)].out, generated_code[i]))
           /\ UninstallFailed(i) => Len(R) = 2

\* C15 witness: the retry printed out, then both the uninstall and the delete
\* failed
C15_Witness ==
    \E i \in Inst :
        /\ pc[i] = "done"
        /\ Len(Runs(i)) = 2 /\ Runs(i)[2].out = "out"
        /\ UninstallFailed(i) /\ DeleteFailed(i)
        /\ file_name[i] \in files
        /\ outcome[i] = Returned("out")

----------------------------------------------------------------------------
(* What the claims about errors read off an exception *)

\* the names an error's message spells out
Mentions(e) == {e.name} \cup UNION {e.lists[k] : k \in 1..Len(e.lists)}

\* the fixed texts an error's message is made of, its own and the wrapped ones
Texts(e) == {e.msg} \cup {e.inner[k] : k \in 1..Len(e.inner)}

\* the last operation asked for a provider of the static table that has no key
AskedWithoutKey ==
    /\ last.op \in {"get_provider", "construct", "switch"}
    /\ last.name \in DOMAIN AI_PROVIDERS
    /\ KeyOf(last.name) = ""

\* C14 as stated: asking for a known provider that has no key fails with an
\* error whose message names the provider's environment variable, and no
\* provider instance is made.
C14_ErrorNamesEnvVariable ==
    AskedWithoutKey =>
        /\ last.status = "raised"
        /\ AI_PROVIDERS[last.name].api_key_env \in Mentions(last.err)
        /\ last.made = NoInstance

\* C14 amended: asking for a known provider that has no key fails with a
\* ValueError whose message says the API key was not found and names the
\* provider, and no provider instance is made.
C14_ErrorNamesProvider ==
    AskedWithoutKey =>
        /\ last.status = "raised"
        /\ last.err.exc = "ValueError"
        /\ "API key not found for provider" \in Texts(last.err)
        /\ last.name \in Mentions(last.err)
        /\ last.made = NoInstance
        /\ last.inst = 0

\* C14 witness: openai has no key; an assistant on groq is switched to it
C14_Witness ==
    /\ last.op = "switch" /\ last.name = "openai"
    /\ "openai" \notin DOMAIN API_KEYS
    /\ asst.state = "live"
    /\ last.status = "raised"

----------------------------------------------------------------------------
\* the environment has a key for provider p
EnvHasKey(p) == env[AI_PROVIDERS[p].api_key_env] # ""

\* C17: importing config raises exactly when no provider has a key in the
\* environment; once it is imported the default provider has a non-empty key;
\* every provider instance ever made holds a non-empty key; and get_provider
\* for a provider without a key raises and makes no instance.
C17_NoInstanceWithoutKey ==
    /\ config_state = "failed" => \A p \in DOMAIN AI_PROVIDERS : ~EnvHasKey(p)
    /\ config_state = "loaded" =>
          /\ \E p \in DOMAIN AI_PROVIDERS : EnvHasKey(p)
          /\ DEFAULT_PROVIDER \in DOMAIN AI_PROVIDERS
          /\ EnvHasKey(DEFAULT_PROVIDER)
          /\ KeyOf(DEFAULT_PROVIDER) = env[AI_PROVIDERS[DEFAULT_PROVIDER].api_key_env]
    /\ \A k \in 1..Len(providers) : providers[k].api_key # ""
    /\ last.made # NoInstance => last.made.api_key # ""
    /\ (last.op = "get_provider" /\ last.name \in DOMAIN AI_PROVIDERS
           /\ ~EnvHasKey(last.name))
       => last.status = "raised" /\ last.made = NoInstance

\* C17 witness: FAWERN_AI_PROVIDER names openai, which has no key; the default
\* fell back to groq, an assistant was built on it, and get_provider("openai")
\* raised
C17_Witness ==
    /\ env.FAWERN_AI_PROVIDER = "openai" /\ ~EnvHasKey("openai")
    /\ DEFAULT_PROVIDER = "groq"
    /\ Len(providers) >= 1
    /\ last.op = "get_provider" /\ last.name = "openai" /\ last.status = "raised"

----------------------------------------------------------------------------
\* instance x is what get_provider(name, **kw) builds: name's registered
\* class, holding name's key and the keywords kw
BuiltFor(x, name, kw) ==
    /\ name \in DOMAIN registry
    /\ x.cls = registry[name]
    /\ x.api_key = KeyOf(name)
    /\ x.kwargs = kw

\* C20: in every state of a live assistant, provider_name names the provider
\* whose instance _provider holds and kwargs are the keywords it was built
\* with; so a switch_provider that raises has left all three as they were.
C20_SwitchIsAllOrNothing ==
    asst.state = "live" =>
        BuiltFor(providers[asst.provider], asst.provider_name, asst.kwargs)

----------------------------------------------------------------------------
(* What the claims about texts read off a state *)

\* the places of t that hold a character other than whitespace
Inked(t) == {k \in 1..Len(t) : t[k] # " "}

\* t without the whitespace before its first and after its last other character
Trimmed(t) ==
    IF Inked(t) = {} THEN <<>>
    ELSE LET lo == CHOOSE k \in Inked(t) : \A h \in Inked(t) : k <= h
             hi == CHOOSE k \in Inked(t) : \A h \in Inked(t) : k >= h
         IN  SubSeq(t, lo, hi)

\* a blocking completion has returned and a stream of the same response was
\* read to its end
BothRead == reply.ok /\ stream.end = "stop"

\* C11 as stated: the chunks of a stream read to its end, put together, are
\* the string get_completion returns for the same response.
C11_ChunksEqualCompletion ==
    BothRead => Concat(stream.delivered) = reply.text

\* C11 amended: the chunks of a stream read to its end, put together, are the
\* whole content; the string get_completion returns is that text without its
\* leading and trailing whitespace. The two are equal exactly when the content
\* neither starts nor ends with whitespace.
C11_ChunksTrimmedEqualCompletion ==
    BothRead =>
        /\ Concat(stream.delivered) = Content(mock)
        /\ reply.text = Trimmed(Concat(stream.delivered))
        /\ Concat(stream.delivered) = reply.text
              <=> (Content(mock) = <<>>
                     \/ (Head(Content(mock)) # " "
                           /\ Content(mock)[Len(Content(mock))] # " "))

\* C11 witness: the response " a " came in three chunks; the stream delivered
\* all three and get_completion returned "a"
C11_Witness ==
    /\ BothRead
    /\ mock.deltas = << <<" ">>, <<"a">>, <<" ">> >>
    /\ stream.delivered = mock.deltas
    /\ reply.text = <<"a">>

\* the last operation was a get_completion whose create call returned
CompletionAnswered ==
    /\ last.op = "completion"
    /\ last.status = "ok" \/ NoneError.msg \in Texts(last.err)

\* C12 as stated: whenever the upstream call succeeds, get_completion returns
\* a string that is not empty, whatever the content of the first choice.
C12_CompletionIsNonEmpty ==
    CompletionAnswered =>
        /\ last.status = "ok"
        /\ reply.ok /\ reply.text # <<>>

\* C12 amended: whenever the upstream call succeeds and the content of the
\* first choice is a string, get_completion returns that content without its
\* leading and trailing whitespace, which is empty exactly when the content is
\* empty or whitespace only; when the content is None it raises.
C12_CompletionIsTrimmedContent ==
    CompletionAnswered =>
        /\ last.status = "ok" <=> ~mock.null
        /\ last.status = "ok" =>
              /\ reply.ok
              /\ reply.text = Trimmed(Content(mock))
              /\ reply.text = <<>> <=> Inked(Content(mock)) = {}

\* C12 witness: the content was whitespace only and the empty string came back
C12_Witness ==
    /\ last.op = "completion" /\ last.status = "ok"
    /\ Content(mock) = <<" ", " ">>
    /\ reply = [ok |-> TRUE, text |-> <<>>]

----------------------------------------------------------------------------
\* the deltas among the first k of the upstream stream that are not empty
NonEmptyAmong(k) == SelectSeq(SubSeq(mock.deltas, 1, k), LAMBDA d : d # <<>>)

\* what holds of a generator in every state
C19_State ==
    /\ stream.delivered = NonEmptyAmong(stream.pos)
    /\ gen \in {"none", "created"} => stream = NoStream
    /\ gen = "finished" <=> stream.end # ""
    /\ stream.end = "stop" =>
          /\ stream.pos = Len(mock.deltas)
          /\ ~(mock.fails /\ mock.after <= Len(mock.deltas))
    /\ (stream.end = "error" /\ stream.pos > 0) =>
          mock.fails /\ stream.pos = mock.after

\* what holds of every step of a generator
C19_Step ==
    /\ C19_State /\ C19_State'
    \* building the generator asks nothing of the upstream; only the first
    \* pull does, once
    /\ (gen # "created" /\ gen' = "created") => client_calls' = client_calls
    /\ (client_calls' # client_calls /\ last'.op = "pull") =>
          /\ gen = "created"
          /\ TotalCalls(client_calls') = TotalCalls(client_calls) + 1
    \* a pull delivers at most one chunk, after those already delivered
    /\ (gen # "finished" /\ gen' # "created") =>
          \/ stream'.delivered = stream.delivered
          \/ /\ Len(stream'.delivered) = Len(stream.delivered) + 1
             /\ SubSeq(stream'.delivered, 1, Len(stream.delivered)) = stream.delivered
             /\ last'.status = "ok"
    \* the failure is raised, wrapped, by the pull that meets it
    /\ (stream.end = "" /\ stream'.end = "error") =>
          /\ last'.op = "pull" /\ last'.status = "raised"
          /\ last'.err.msg = "AI streaming completion error"
          /\ UpstreamError.msg \in Texts(last'.err)
    \* a generator that has ended yields nothing more
    /\ (gen = "finished" /\ gen' = "finished") => stream' = stream
    /\ (gen = "finished" /\ gen' = "finished" /\ last'.op = "pull") =>
          last'.status = "stopped"

\* C19: the chunks a streaming completion delivers are the non-empty upstream
\* deltas, in upstream order; nothing is asked of the upstream before the
\* first pull; when the upstream fails after k deltas the consumer has had the
\* non-empty ones among those k before the wrapped error is raised; after the
\* end or the error the generator yields nothing more.
C19_StreamDeliversNonEmptyDeltas == [][C19_Step]_vars

\* C19 witness: the upstream sent "a", an empty delta, and failed; the
\* consumer had "a" and then the error
C19_Witness ==
    /\ mock.deltas = << <<"a">>, <<>>, <<" ">> >>
    /\ mock.fails /\ mock.after = 2
    /\ stream.delivered = << <<"a">> >>
    /\ stream.end = "error"
    /\ last.op = "pull" /\ last.status = "raised"

----------------------------------------------------------------------------
\* the step is a _get_completion whose upstream call failed
C16_FailedCompletion ==
    /\ client_calls' # client_calls
    /\ last'.op = "completion" /\ last'.status = "raised"
    /\ UpstreamError.msg \in Texts(last'.err)

C16_Step ==
    C16_FailedCompletion =>
        /\ TotalCalls(client_calls') = TotalCalls(client_calls) + 1
        /\ last'.err.msg = "AI completion error"
        /\ last'.err.name \in DOMAIN registry
        /\ providers[last'.inst].cls = registry[last'.err.name]
        /\ providers[last'.inst].api_key = KeyOf(last'.err.name)
        /\ client_calls'[last'.inst] = client_calls[last'.inst] + 1

\* C16: a _get_completion whose upstream call fails has made exactly one
\* upstream call, and the error it raises carries the upstream message and
\* the name of the provider whose client made that call, in every state of
\* the assistant, also after switch_provider calls.
C16_ErrorNamesCallingProvider == [][C16_Step]_vars

----------------------------------------------------------------------------
\* a provider can be built for the name given to the last validation
Constructible(name) == GetProvider(name, "", {}).ok

\* C13: validate_provider, of the factory and of an assistant, returns True or
\* False whatever the name and whatever the upstream does: True only when a
\* provider was built and its completion call succeeded, False when the
\* provider cannot be built or the call fails.
C13_ValidationReturnsBoolean ==
    validation # NoValidation =>
        /\ validation.result \in {"True", "False"}
        /\ validation.built <=> Constructible(validation.name)
        /\ validation.result = "True" =>
              (validation.built /\ validation.called /\ validation.call_ok)
        /\ (~validation.built \/ ~validation.call_ok \/ mock.null) =>
              validation.result = "False"
        /\ (validation.built /\ validation.call_ok /\ ~mock.null) =>
              validation.result = "True"

\* C13 witness: an assistant on groq was switched to a name the factory does
\* not know; the switch raised and validate_provider returned False
C13_Witness ==
    /\ validation.by = "assistant"
    /\ validation.name = "bogus"
    /\ asst.state = "live" /\ providers[asst.provider].cls = "GroqProvider"
    /\ validation.result = "False" /\ ~validation.built

----------------------------------------------------------------------------
\* C18: when two calls run at once on one environment, no call's uninstall of
\* a module comes between another call's install of that module and that
\* call's retry: between the two there is always the installer's retry.
C18_NoUninstallBeforeOthersRetry ==
    \A k \in 1..Len(calls) : \A l \in (k + 1)..Len(calls) :
        ( /\ calls[k].op = "install" /\ calls[k].rc = 0
          /\ calls[l].op = "uninstall" /\ calls[l].rc = 0
          /\ calls[l].arg = calls[k].arg
          /\ calls[l].inst # calls[k].inst )
        => \E m \in (k + 1)..(l - 1) :
               calls[m].inst = calls[k].inst /\ calls[m].op = "exec"

----------------------------------------------------------------------------
\* C21: a call runs pip uninstall at most once, and only as its fourth child
\* process: after its own install exited 0 and its retry exited 0, with
\* cleanup_installed_module on, and for the name it installed. A call whose
\* retry failed, whose install failed or that installed nothing runs no
\* uninstall; after a failed retry the installed module is still in the
\* environment, cleanup_installed_module on or off.
C21_UninstallOnlyAfterGoodRetry ==
    \A i \in Inst :
        LET L == LoopCalls(i)
            U == Uninstalls(i)
        IN  /\ Len(U) <= 1
            /\ Len(U) = 1 =>
                  /\ Len(L) = 4
                  /\ L[1].op = "exec" /\ L[1].rc # 0
                  /\ L[2].op = "install" /\ L[2].rc = 0
                  /\ L[3].op = "exec" /\ L[3].rc = 0
                  /\ L[4].op = "uninstall" /\ L[4].arg = L[2].arg
                  /\ args[i].cleanup_installed_module
            /\ (Len(L) >= 3 /\ L[3].op = "exec" /\ L[3].rc # 0) =>
                  /\ Len(U) = 0
                  /\ pc[i] = "done"
                  /\ L[2].arg \in installed
            /\ (Len(L) >= 3 /\ L[3].op = "exec" /\ L[3].rc = 0
                   /\ ~args[i].cleanup_installed_module) =>
                  Len(U) = 0 /\ L[2].arg \in installed

\* C21 witness: cleanup_installed_module was on, foo was installed, the retry
\* failed; the call ended with no uninstall and foo still installed
C21_Witness ==
    \E i \in Inst :
        LET L == LoopCalls(i) IN
        /\ pc[i] = "done"
        /\ args[i].cleanup_installed_module
        /\ Len(L) = 3 /\ L[2].op = "install" /\ L[2].arg = "foo" /\ L[2].rc = 0
        /\ L[3].rc # 0
        /\ "foo" \in installed
        /\ outcome[i].kind = "raised"

====
